---- MODULE Spec2Model ----
(***************************************************************************)
(* Model of types/wallet.go (amp-matching-engine): the Wallet type, its    *)
(* constructors, its BSON codec (GetBSON / SetBSON) and its signing        *)
(* operations (SignHash, SignOrder, SignTrade).                            *)
(*                                                                         *)
(* The go-ethereum primitives the file calls are modelled by what they do, *)
(* on scaled-down widths: a hex character is a digit below HexBase, a byte *)
(* is two hex characters, a private scalar and a hash are HashLength bytes *)
(* wide, an address is AddressLength bytes wide, and secp256k1 is replaced *)
(* by the subgroup of prime order CurveN generated by CurveG in the units  *)
(* modulo CurveP (CurveP = 2 * CurveN + 1), with the residue modulo CurveN *)
(* of a group element playing the role of the x coordinate of a point.     *)
(* The letter case of hex output (EIP-55 checksum) is folded: hex decoding *)
(* is case-insensitive.                                                    *)
(***************************************************************************)
EXTENDS Integers, Sequences, FiniteSets, TLC

VARIABLES wallet, order, trade, ret

vars == <<wallet, order, trade, ret>>

(***************************************************************************)
(* Bounds of the model.                                                    *)
(***************************************************************************)
MaxId == 1
MaxAmount == 1
MaxDigest == 2
MaxKeyStrLen == 4
MaxAddrStrLen == 2

(***************************************************************************)
(* Scaled library parameters.                                              *)
(***************************************************************************)
HexBase == 2
XChar == HexBase
ByteBase == HexBase * HexBase
HashLength == 2
KeyLen == HashLength
AddressLength == 1
CurveP == 11
CurveN == 5
CurveG == 4
KeccakMul == 9
KeccakMod == 23
Preamble == <<1, 2, 1>>
VOffset == 27
ByteWidth == 256

(***************************************************************************)
(* Arithmetic and byte helpers (math/big, encoding/hex, common).           *)
(***************************************************************************)
RECURSIVE Pow(_, _, _)
Pow(b, e, m) == IF e = 0 THEN 1 % m ELSE (b * Pow(b, e - 1, m)) % m

RECURSIVE BytesOf(_)
\* big.Int.Bytes(): minimal big-endian encoding, empty for zero
BytesOf(n) == IF n = 0 THEN <<>> ELSE Append(BytesOf(n \div ByteBase), n % ByteBase)

RECURSIVE BytesToInt(_)
\* big.Int.SetBytes(): big-endian value
BytesToInt(bs) ==
    IF bs = <<>> THEN 0
    ELSE BytesToInt(SubSeq(bs, 1, Len(bs) - 1)) * ByteBase + bs[Len(bs)]

Zeros(n) == [i \in 1..n |-> 0]

\* math.PaddedBigBytes(n, len): big-endian, left-padded to len bytes
PaddedBigBytes(n, len) ==
    LET b == BytesOf(n)
    IN  IF Len(b) >= len THEN b ELSE Zeros(len - Len(b)) \o b

RECURSIVE EncodeToString(_)
\* hex.EncodeToString: two hex characters per byte
EncodeToString(bs) ==
    IF bs = <<>> THEN <<>>
    ELSE <<bs[1] \div HexBase, bs[1] % HexBase>> \o EncodeToString(Tail(bs))

RECURSIVE DecodeFrom(_, _, _)
\* hex.Decode: pairs of characters; stops at the first invalid character and
\* keeps the bytes decoded so far; an odd length is an error
DecodeFrom(s, i, acc) ==
    IF i > Len(s) \div 2
    THEN [bytes |-> acc,
          err   |-> IF Len(s) % 2 = 1
                    THEN IF s[Len(s)] >= HexBase THEN "InvalidByteError" ELSE "ErrLength"
                    ELSE "nil"]
    ELSE IF s[2 * i - 1] >= HexBase \/ s[2 * i] >= HexBase
         THEN [bytes |-> acc, err |-> "InvalidByteError"]
         ELSE DecodeFrom(s, i + 1, Append(acc, s[2 * i - 1] * HexBase + s[2 * i]))

DecodeString(s) == DecodeFrom(s, 1, <<>>)

\* common.Hex2Bytes: the decoding error is dropped
Hex2Bytes(s) == DecodeString(s).bytes

has0xPrefix(s) == Len(s) >= 2 /\ s[1] = 0 /\ s[2] = XChar

\* common.FromHex: strip "0x", left-pad an odd length with one "0"
FromHex(s) ==
    LET t == IF has0xPrefix(s) THEN SubSeq(s, 3, Len(s)) ELSE s
        u == IF Len(t) % 2 = 1 THEN <<0>> \o t ELSE t
    IN  Hex2Bytes(u)

\* SetBytes of a fixed-width value: crop from the left, left-pad with zeros
SetBytes(b, width) ==
    LET c == IF Len(b) > width THEN SubSeq(b, Len(b) - width + 1, Len(b)) ELSE b
    IN  Zeros(width - Len(c)) \o c

BytesToAddress(b) == SetBytes(b, AddressLength)

BytesToHash(b) == SetBytes(b, HashLength)

HexToAddress(s) == BytesToAddress(FromHex(s))

\* common.Address.Hex(): "0x" followed by the hex of the bytes
AddressHex(a) == <<0, XChar>> \o EncodeToString(a)

RECURSIVE KeccakFold(_, _)
KeccakFold(data, h) ==
    IF data = <<>> THEN h
    ELSE KeccakFold(Tail(data), (h * KeccakMul + data[1] + 1) % KeccakMod)

\* crypto.Keccak256(data...): a HashLength-byte digest of the concatenation
Keccak256(data) == PaddedBigBytes(KeccakFold(data, 0) % (ByteBase ^ HashLength), HashLength)

(***************************************************************************)
(* Keys (crypto.HexToECDSA, crypto.PubkeyToAddress, crypto.GenerateKey).   *)
(***************************************************************************)
NilKey == [nil |-> TRUE]

MkKey(d) == [D |-> d]

\* crypto.ToECDSA (strict): exact length, then range
ToECDSA(d) ==
    IF Len(d) # KeyLen THEN [key |-> NilKey, err |-> "invalid length"]
    ELSE IF BytesToInt(d) >= CurveN THEN [key |-> NilKey, err |-> "invalid private key, >=N"]
    ELSE IF BytesToInt(d) <= 0 THEN [key |-> NilKey, err |-> "invalid private key, zero or negative"]
    ELSE [key |-> MkKey(BytesToInt(d)), err |-> "nil"]

HexToECDSA(hexkey) ==
    LET dec == DecodeString(hexkey)
    IN  IF dec.err # "nil" THEN [key |-> NilKey, err |-> "invalid hex string"]
        ELSE ToECDSA(dec.bytes)

\* the public key of a private scalar: D times the generator
PublicKeyOf(d) == Pow(CurveG, d, CurveP)

\* crypto.PubkeyToAddress: the trailing AddressLength bytes of the digest
PubkeyToAddress(pub) ==
    LET h == Keccak256(PaddedBigBytes(pub, KeyLen))
    IN  BytesToAddress(SubSeq(h, HashLength - AddressLength + 1, HashLength))

ValidScalars == 1..(CurveN - 1)

(***************************************************************************)
(* Signing primitive (crypto.Sign over secp256k1, RFC 6979 nonce).         *)
(***************************************************************************)
Inv(a) == Pow(a % CurveN, CurveN - 2, CurveN)

SigR(k) == Pow(CurveG, k, CurveP) % CurveN

SigS(d, z, k) == (Inv(k) * (z + SigR(k) * d)) % CurveN

RecId(k) == Pow(CurveG, k, CurveP) \div CurveN

RECURSIVE NextNonce(_, _, _)
NextNonce(d, z, k) ==
    IF SigR(k) # 0 /\ SigS(d, z, k) # 0 THEN k
    ELSE NextNonce(d, z, (k % (CurveN - 1)) + 1)

\* deterministic nonce derived from the key and the message
Nonce(d, z) == NextNonce(d, z, 1 + (KeccakFold(<<d, z>>, 0) % (CurveN - 1)))

\* secp256k1.Sign: R (32 bytes) || S (32 bytes) || recovery id (1 byte)
Secp256k1Sign(msg, seckey) ==
    LET d == BytesToInt(seckey)
        z == BytesToInt(msg) % CurveN
        k == Nonce(d, z)
    IN  IF d = 0 \/ d >= CurveN
        THEN [sig |-> <<>>, err |-> "invalid private key"]
        ELSE [sig |-> PaddedBigBytes(SigR(k), HashLength)
                        \o PaddedBigBytes(SigS(d, z, k), HashLength)
                        \o <<RecId(k)>>,
              err |-> "nil"]

\* crypto.Sign: dereferences the key (a nil key panics)
CryptoSign(msg, prv) ==
    IF prv = NilKey THEN [sig |-> <<>>, err |-> "panic"]
    ELSE Secp256k1Sign(msg, PaddedBigBytes(prv.D, KeyLen))

(***************************************************************************)
(* State.                                                                  *)
(***************************************************************************)
Ids == 0..MaxId

ZeroId == 0

ZeroAddress == Zeros(AddressLength)

ZeroHash == Zeros(HashLength)

NoWallet == [none |-> TRUE]

NilSig == [nil |-> TRUE]

NoRec == [none |-> TRUE]

ZeroSignature == [R |-> ZeroHash, S |-> ZeroHash, V |-> 0]

MkRet(op, err, hash, sig, rec, src) ==
    [op |-> op, err |-> err, hash |-> hash, sig |-> sig, rec |-> rec, src |-> src]

Running == ret.err # "panic"

HasWallet == wallet # NoWallet

\* Order.ComputeHash / Trade.ComputeHash: a digest of the content
OrderComputeHash(o) == Keccak256(<<0>> \o PaddedBigBytes(o.Amount, HashLength))

TradeComputeHash(t) == Keccak256(<<1>> \o PaddedBigBytes(t.Amount, HashLength))

Amounts == 0..MaxAmount

Digests == {PaddedBigBytes(i, HashLength) : i \in 0..MaxDigest}

Init ==
    /\ wallet = NoWallet
    /\ \E a \in Amounts : order = [Amount |-> a, Hash |-> ZeroHash, Signature |-> NilSig]
    /\ \E a \in Amounts : trade = [Amount |-> a, Hash |-> ZeroHash, Signature |-> NilSig]
    /\ ret = MkRet("init", "nil", ZeroHash, NilSig, NoRec, "none")

(***************************************************************************)
(* Operations of Wallet as functions of the receiver and the arguments.    *)
(***************************************************************************)
MkWallet(key) ==
    [ID         |-> ZeroId,
     Address    |-> PubkeyToAddress(PublicKeyOf(key.D)),
     PrivateKey |-> key,
     Admin      |-> FALSE,
     Operator   |-> FALSE]

\* outcomes of crypto.GenerateKey: a valid scalar, or a failed random source
GenerateKeyOutcomes ==
    {[key |-> MkKey(d), err |-> "nil"] : d \in ValidScalars}
        \cup {[key |-> NilKey, err |-> "rand"]}

\* NewWallet: the error of GenerateKey is discarded, the key is dereferenced
NewWalletOp(gen) ==
    IF gen.key = NilKey THEN [wallet |-> NoWallet, err |-> "panic"]
    ELSE [wallet |-> MkWallet(gen.key), err |-> "nil"]

\* NewWalletFromPrivateKey: the error of HexToECDSA is logged, the key is
\* dereferenced
NewWalletFromPrivateKeyOp(key) ==
    LET r == HexToECDSA(key)
    IN  IF r.key = NilKey THEN [wallet |-> NoWallet, err |-> "panic"]
        ELSE [wallet |-> MkWallet(r.key), err |-> "nil"]

\* GetAddress
GetAddress(w) == AddressHex(w.Address)

\* GetPrivateKey
GetPrivateKey(w) == EncodeToString(BytesOf(w.PrivateKey.D))

\* variant of GetBSON whose record carries the wallet's operator
GetBSONOpCarryingOperator(w) ==
    IF w.PrivateKey = NilKey THEN [rec |-> NoRec, err |-> "panic"]
    ELSE [rec |-> [ID         |-> w.ID,
                   Address    |-> AddressHex(w.Address),
                   PrivateKey |-> EncodeToString(BytesOf(w.PrivateKey.D)),
                   Admin      |-> w.Admin,
                   Operator   |-> w.Operator],
          err |-> "nil"]

\* GetBSON: Operator is not a field of the literal
GetBSONOp(w) ==
    IF w.PrivateKey = NilKey THEN [rec |-> NoRec, err |-> "panic"]
    ELSE [rec |-> [ID         |-> w.ID,
                   Address    |-> AddressHex(w.Address),
                   PrivateKey |-> EncodeToString(BytesOf(w.PrivateKey.D)),
                   Admin      |-> w.Admin,
                   Operator   |-> FALSE],
          err |-> "nil"]

\* SetBSON
SetBSONOp(w, raw) ==
    IF ~raw.ok THEN [wallet |-> w, err |-> "unmarshal"]
    ELSE LET decoded == raw.rec
             k  == HexToECDSA(decoded.PrivateKey)
             w1 == [w EXCEPT !.ID = decoded.ID,
                             !.Address = HexToAddress(decoded.Address),
                             !.PrivateKey = k.key]
         IN  IF k.err # "nil" THEN [wallet |-> w1, err |-> k.err]
             ELSE [wallet |-> [w1 EXCEPT !.Admin = decoded.Admin,
                                         !.Operator = decoded.Operator],
                   err |-> "nil"]

\* variant of SignHash that stores the recovery id without the offset
SignHashOpNoOffset(w, h) ==
    LET message == Keccak256(Preamble \o h)
        s == CryptoSign(message, w.PrivateKey)
    IN  IF s.err = "panic" THEN [sig |-> NilSig, err |-> "panic"]
        ELSE IF s.err # "nil" THEN [sig |-> ZeroSignature, err |-> s.err]
        ELSE [sig |-> [R |-> BytesToHash(SubSeq(s.sig, 1, HashLength)),
                       S |-> BytesToHash(SubSeq(s.sig, HashLength + 1, 2 * HashLength)),
                       V |-> s.sig[2 * HashLength + 1] % ByteWidth],
              err |-> "nil"]

\* SignHash
SignHashOp(w, h) ==
    LET message == Keccak256(Preamble \o h)
        s == CryptoSign(message, w.PrivateKey)
    IN  IF s.err = "panic" THEN [sig |-> NilSig, err |-> "panic"]
        ELSE IF s.err # "nil" THEN [sig |-> ZeroSignature, err |-> s.err]
        ELSE [sig |-> [R |-> BytesToHash(SubSeq(s.sig, 1, HashLength)),
                       S |-> BytesToHash(SubSeq(s.sig, HashLength + 1, 2 * HashLength)),
                       V |-> (s.sig[2 * HashLength + 1] + VOffset) % ByteWidth],
              err |-> "nil"]

\* SignTrade
SignTradeOp(w, t) ==
    LET hash == TradeComputeHash(t)
        r == SignHashOp(w, hash)
    IN  IF r.err # "nil" THEN [target |-> t, err |-> r.err]
        ELSE [target |-> [t EXCEPT !.Hash = hash, !.Signature = r.sig], err |-> "nil"]

\* variant of SignOrder that stores the signature but not the hash
SignOrderOpSignatureOnly(w, o) ==
    LET hash == OrderComputeHash(o)
        r == SignHashOp(w, hash)
    IN  IF r.err # "nil" THEN [target |-> o, err |-> r.err]
        ELSE [target |-> [o EXCEPT !.Signature = r.sig], err |-> "nil"]

\* SignOrder
SignOrderOp(w, o) ==
    LET hash == OrderComputeHash(o)
        r == SignHashOp(w, hash)
    IN  IF r.err # "nil" THEN [target |-> o, err |-> r.err]
        ELSE [target |-> [o EXCEPT !.Hash = hash, !.Signature = r.sig], err |-> "nil"]

(***************************************************************************)
(* Inputs.                                                                 *)
(***************************************************************************)
HexStrings(n) == UNION {[1..k -> 0..(HexBase - 1)] : k \in 0..n}

Strings(n) == UNION {[1..k -> 0..XChar] : k \in 0..n}

Addresses == {PaddedBigBytes(i, AddressLength) : i \in 0..(ByteBase ^ AddressLength - 1)}

\* key strings: every string of hex digits and "x" up to the bound
FineKeyStrings == Strings(MaxKeyStrLen)

\* key strings: full-width hex of every scalar value, minimal hex of the
\* scalars below the order
CoarseKeyStrings ==
    {EncodeToString(PaddedBigBytes(d, KeyLen)) : d \in 0..(ByteBase ^ KeyLen - 1)}
        \cup {EncodeToString(BytesOf(d)) : d \in 0..(CurveN - 1)}

FineAddrStrings == {AddressHex(a) : a \in Addresses} \cup HexStrings(MaxAddrStrLen)

CoarseAddrStrings == {AddressHex(a) : a \in Addresses}

MkRaw(id, addr, key, admin, operator) ==
    [ok  |-> TRUE,
     rec |-> [ID |-> id, Address |-> addr, PrivateKey |-> key,
              Admin |-> admin, Operator |-> operator]]

\* a document that does not unmarshal into a WalletRecord
BadRaw == [ok |-> FALSE, rec |-> NoRec]

FineRaws ==
    {MkRaw(id, a, k, ad, op) :
        id \in Ids, a \in FineAddrStrings, k \in HexStrings(MaxKeyStrLen),
        ad \in BOOLEAN, op \in BOOLEAN}
        \cup {BadRaw}

CoarseRaws ==
    {MkRaw(ZeroId, a, k, FALSE, FALSE) : a \in CoarseAddrStrings, k \in CoarseKeyStrings}
        \cup {BadRaw}

(***************************************************************************)
(* Actions.                                                                *)
(***************************************************************************)
NewWallet ==
    /\ Running
    /\ \E gen \in GenerateKeyOutcomes :
          LET r == NewWalletOp(gen)
          IN  /\ wallet' = IF r.err = "nil" THEN r.wallet ELSE wallet
              /\ ret' = MkRet("NewWallet", r.err, ZeroHash, NilSig, NoRec, "none")
    /\ UNCHANGED <<order, trade>>

NewWalletFromPrivateKey(keys) ==
    /\ Running
    /\ \E key \in keys :
          LET r == NewWalletFromPrivateKeyOp(key)
          IN  /\ wallet' = IF r.err = "nil" THEN r.wallet ELSE wallet
              /\ ret' = MkRet("NewWalletFromPrivateKey", r.err, ZeroHash, NilSig, NoRec, "none")
    /\ UNCHANGED <<order, trade>>

GetBSON ==
    /\ Running
    /\ HasWallet
    /\ LET r == GetBSONOp(wallet)
       IN  ret' = MkRet("GetBSON", r.err, ZeroHash, NilSig, r.rec, "none")
    /\ UNCHANGED <<wallet, order, trade>>

\* SetBSON on a document of the given set
SetBSONRaw(raws) ==
    /\ Running
    /\ HasWallet
    /\ \E raw \in raws :
          LET r == SetBSONOp(wallet, raw)
          IN  /\ wallet' = r.wallet
              /\ ret' = MkRet("SetBSON", r.err, ZeroHash, NilSig, NoRec, "raw")
    /\ UNCHANGED <<order, trade>>

\* SetBSON on the document that the preceding GetBSON produced
SetBSONStored ==
    /\ Running
    /\ HasWallet
    /\ ret.op = "GetBSON"
    /\ ret.err = "nil"
    /\ LET r == SetBSONOp(wallet, [ok |-> TRUE, rec |-> ret.rec])
       IN  /\ wallet' = r.wallet
           /\ ret' = MkRet("SetBSON", r.err, ZeroHash, NilSig, NoRec, "stored")
    /\ UNCHANGED <<order, trade>>

SignHash ==
    /\ Running
    /\ HasWallet
    /\ \E h \in Digests :
          LET r == SignHashOp(wallet, h)
          IN  ret' = MkRet("SignHash", r.err, h, r.sig, NoRec, "none")
    /\ UNCHANGED <<wallet, order, trade>>

SignTrade ==
    /\ Running
    /\ HasWallet
    /\ LET r == SignTradeOp(wallet, trade)
       IN  /\ trade' = r.target
           /\ ret' = MkRet("SignTrade", r.err, ZeroHash, NilSig, NoRec, "none")
    /\ UNCHANGED <<wallet, order>>

SignOrder ==
    /\ Running
    /\ HasWallet
    /\ LET r == SignOrderOp(wallet, order)
       IN  /\ order' = r.target
           /\ ret' = MkRet("SignOrder", r.err, ZeroHash, NilSig, NoRec, "none")
    /\ UNCHANGED <<wallet, trade>>

NewWalletFromCoarseKey == NewWalletFromPrivateKey(CoarseKeyStrings)

NewWalletFromFineKey == NewWalletFromPrivateKey(FineKeyStrings)

SetBSONCoarse == SetBSONRaw(CoarseRaws)

SetBSONFine == SetBSONRaw(FineRaws)

Next ==
    \/ NewWallet
    \/ NewWalletFromCoarseKey
    \/ GetBSON
    \/ SetBSONCoarse
    \/ SetBSONStored
    \/ SignHash
    \/ SignTrade
    \/ SignOrder

Spec == Init /\ [][Next]_vars

NextCodec ==
    \/ NewWallet
    \/ NewWalletFromFineKey
    \/ GetBSON
    \/ SetBSONFine
    \/ SetBSONStored

\* the codec operations alone, on one fixed pair of signables
InitCodec == Init /\ order.Amount = 0 /\ trade.Amount = 0

SpecCodec == InitCodec /\ [][NextCodec]_vars

(***************************************************************************)
(* Signer recovery (Signature.Verify: ecrecover over the prefixed digest). *)
(***************************************************************************)
Ecrecover(msg, sig) ==
    LET r     == BytesToInt(sig.R)
        s     == BytesToInt(sig.S)
        recid == sig.V - VOffset
        z     == BytesToInt(msg) % CurveN
        pt    == r + recid * CurveN
        u     == (Pow(pt, s, CurveP) * Pow(CurveG, (CurveN - z) % CurveN, CurveP)) % CurveP
    IN  Pow(u, Inv(r), CurveP)

VerifySigner(h, sig) == PubkeyToAddress(Ecrecover(Keccak256(Preamble \o h), sig))

(***************************************************************************)
(* Properties.                                                             *)
(***************************************************************************)
ValidKeys == {MkKey(d) : d \in ValidScalars}

KeyFormatErrors ==
    {"invalid hex string", "invalid length", "invalid private key, >=N",
     "invalid private key, zero or negative"}

\* C1: for a wallet holding a valid scalar, SetBSON on the record that GetBSON
\* produced succeeds and leaves id, address, privateKey and admin as they were.
C1_RoundTripReproduces ==
    [][(/\ ret.op = "GetBSON" /\ ret.err = "nil"
        /\ wallet.PrivateKey \in ValidKeys
        /\ ret'.op = "SetBSON" /\ ret'.src = "stored")
       => (/\ ret'.err = "nil"
           /\ wallet'.ID = wallet.ID
           /\ wallet'.Address = wallet.Address
           /\ wallet'.PrivateKey = wallet.PrivateKey
           /\ wallet'.Admin = wallet.Admin)]_vars

\* C2: every wallet holds a key, and its address is the address derived from
\* the public key of that key.
C2_AddressDerivedFromKey ==
    HasWallet =>
        /\ wallet.PrivateKey # NilKey
        /\ IF wallet.PrivateKey = NilKey THEN FALSE
           ELSE wallet.Address = PubkeyToAddress(PublicKeyOf(wallet.PrivateKey.D))

\* C3: SignOrder and SignTrade update their target all-or-nothing: on success
\* the target's hash is its computed hash and its signature is what SignHash
\* returns for that hash; otherwise hash and signature are as before the call.
C3_SignAllOrNothing ==
    [][/\ (ret'.op = "SignOrder") =>
            IF ret'.err = "nil"
            THEN /\ order'.Hash = OrderComputeHash(order)
                 /\ SignHashOp(wallet, OrderComputeHash(order)).err = "nil"
                 /\ order'.Signature = SignHashOp(wallet, OrderComputeHash(order)).sig
                 /\ order'.Amount = order.Amount
            ELSE order' = order
       /\ (ret'.op = "SignTrade") =>
            IF ret'.err = "nil"
            THEN /\ trade'.Hash = TradeComputeHash(trade)
                 /\ SignHashOp(wallet, TradeComputeHash(trade)).err = "nil"
                 /\ trade'.Signature = SignHashOp(wallet, TradeComputeHash(trade)).sig
                 /\ trade'.Amount = trade.Amount
            ELSE trade' = trade]_vars

C3_Witness ==
    /\ ret.op = "SignOrder"
    /\ ret.err = "nil"
    /\ order.Hash = OrderComputeHash(order)
    /\ order.Signature # NilSig
    /\ trade.Hash = TradeComputeHash(trade)
    /\ trade.Signature # NilSig
    /\ trade.Signature # order.Signature

\* C4: the signer recovered from a signature that SignHash returned is the
\* wallet's address.
C4_SignatureVerifies ==
    (ret.op = "SignHash" /\ ret.err = "nil")
        => AddressHex(VerifySigner(ret.hash, ret.sig)) = GetAddress(wallet)

\* C5: NewWalletFromPrivateKey ends either with a wallet or by reporting a
\* key-format failure; it does not crash.
C5_FromKeyReportsFailure ==
    (ret.op = "NewWalletFromPrivateKey") => ret.err \in ({"nil"} \cup KeyFormatErrors)

\* C6: SignHash always returns: a signature and no error, or an error and the
\* all-zero signature.
C6_SignHashReturns ==
    (ret.op = "SignHash") =>
        \/ ret.err = "nil" /\ ret.sig # NilSig
        \/ ret.err \notin {"nil", "panic"} /\ ret.sig = ZeroSignature

\* C7: a signature that SignHash returned has R and S equal to the first and
\* second HashLength bytes of the primitive's output, and V equal to the
\* recovery id (0 or 1) plus 27 without wrap-around, so V is 27 or 28.
C7_SignatureSplit ==
    (ret.op = "SignHash" /\ ret.err = "nil") =>
        LET out == CryptoSign(Keccak256(Preamble \o ret.hash), wallet.PrivateKey).sig
        IN  /\ Len(out) = 2 * HashLength + 1
            /\ ret.sig.R = SubSeq(out, 1, HashLength)
            /\ ret.sig.S = SubSeq(out, HashLength + 1, 2 * HashLength)
            /\ out[2 * HashLength + 1] \in {0, 1}
            /\ ret.sig.V = out[2 * HashLength + 1] + 27
            /\ ret.sig.V \in {27, 28}

C7_Witness ==
    /\ ret.op = "SignHash"
    /\ ret.err = "nil"
    /\ ret.sig.V = 28
    /\ ret.sig.R # ret.sig.S

\* C8: NewWallet ends either with a wallet holding a valid key or by
\* reporting that key generation failed.
C8_NewWalletPropagatesFailure ==
    (ret.op = "NewWallet") =>
        \/ ret.err = "nil" /\ HasWallet /\ wallet.PrivateKey \in ValidKeys
        \/ ret.err = "KeyGenerationFailed"

\* C9: the record GetBSON returns has operator false and the wallet's admin,
\* whatever the wallet's operator is; a successful SetBSON on that record
\* copies the record's operator, so the wallet's operator is false afterwards
\* and its admin is as it was.
C9_OperatorNotCarried ==
    [][/\ (ret'.op = "GetBSON" /\ ret'.err = "nil") =>
            /\ ret'.rec.Operator = FALSE
            /\ ret'.rec.Admin = wallet.Admin
       /\ (/\ ret.op = "GetBSON" /\ ret.err = "nil"
           /\ ret'.op = "SetBSON" /\ ret'.src = "stored" /\ ret'.err = "nil") =>
            /\ wallet'.Operator = ret.rec.Operator
            /\ wallet'.Operator = FALSE
            /\ wallet'.Admin = wallet.Admin]_vars

C9_Witness ==
    /\ ret.op = "GetBSON"
    /\ ret.err = "nil"
    /\ wallet.Operator = TRUE
    /\ wallet.Admin = TRUE
    /\ ret.rec.Operator = FALSE
    /\ ret.rec.Admin = TRUE
    /\ SetBSONOp(wallet, [ok |-> TRUE, rec |-> ret.rec]).err = "nil"
    /\ SetBSONOp(wallet, [ok |-> TRUE, rec |-> ret.rec]).wallet.Operator = FALSE

\* C10: when SetBSON returns an error, the wallet is exactly as it was before
\* the call.
C10_FailedSetBSONLeavesWallet ==
    [][(ret'.op = "SetBSON" /\ ret'.err # "nil") => wallet' = wallet]_vars

====
